---------------------------- MODULE Spec2Model ----------------------------
(***************************************************************************)
(* The wire protocol of pyethereum (src/pyethereum/wire.py): packet        *)
(* framing, the command table, and the Hello / Ping / Pong / Disconnect    *)
(* handlers of WireProtocol, for two nodes joined by one connection, for   *)
(* one node with several peers, and for a transport that delivers          *)
(* synchronously.                                                          *)
(*                                                                         *)
(* A byte string is a sequence of numbers 0..255.  A Python value is a     *)
(* tagged record: [t |-> "int", v |-> n], [t |-> "str", v |-> bytes] or    *)
(* [t |-> "list", v |-> <<values>>].                                       *)
(*                                                                         *)
(* A local variable x = v used by an expression e is written               *)
(* CHOOSE r \in {e : x \in {v}} : TRUE, which is e with x = v and has TLC   *)
(* compute v once.                                                         *)
(***************************************************************************)
EXTENDS Integers, Sequences, FiniteSets, TLC

I(n) == [t |-> "int", v |-> n]
S(b) == [t |-> "str", v |-> b]
L(xs) == [t |-> "list", v |-> xs]

(* Python's s[i:j] for 0 <= i <= j: the bounds are clamped to len(s). *)
Slice(s, i, j) == SubSeq(s, i + 1, IF j < Len(s) THEN j ELSE Len(s))

(* Python's s.startswith(prefix). *)
startswith(s, prefix) ==
    /\ Len(prefix) <= Len(s)
    /\ SubSeq(s, 1, Len(prefix)) = prefix

(***************************************************************************)
(* Integer codec.                                                          *)
(***************************************************************************)

(* utils.int_to_big_endian: the shortest big-endian byte string of x > 0,  *)
(* and the empty string for 0.                                             *)
RECURSIVE int_to_big_endian(_)
int_to_big_endian(x) ==
    IF x = 0 THEN <<>>
    ELSE Append(int_to_big_endian(x \div 256), x % 256)

(* utils.big_endian_to_int: big-endian unsigned; the empty string is 0. *)
RECURSIVE big_endian_to_int(_)
big_endian_to_int(b) ==
    IF b = <<>> THEN 0
    ELSE 256 * big_endian_to_int(SubSeq(b, 1, Len(b) - 1)) + b[Len(b)]

idec(b) == big_endian_to_int(b)

ienc(x) == IF x # 0 THEN int_to_big_endian(x) ELSE <<>>

(* A number too wide for 32 bits is held as its halves: [hi, lo] stands    *)
(* for hi * 2^16 + lo, with 0 <= lo < 2^16.                                *)
halves(x) == [hi |-> x \div 65536, lo |-> x % 65536]

(* struct.pack('>i', x) takes a SIGNED 32-bit integer, -2^31 .. 2^31 - 1:  *)
(* anything else raises struct.error.                                      *)
struct_pack_ok(h) == -32768 <= h.hi /\ h.hi <= 32767

(* The four bytes of x in two's complement, most significant first. *)
struct_pack(h) ==
    << (h.hi \div 256) % 256, h.hi % 256, h.lo \div 256, h.lo % 256 >>

ienc4_ok(x) == struct_pack_ok(halves(x))

ienc4(x) == struct_pack(halves(x))

RECURSIVE list_ienc(_)
list_ienc(lst) ==
    [i \in DOMAIN lst |->
        IF lst[i].t = "list" THEN L(list_ienc(lst[i].v))
        ELSE IF lst[i].t = "int" THEN S(ienc(lst[i].v))
        ELSE lst[i]]

(***************************************************************************)
(* Structured codec (RLP): rlp.encode of a value made of byte strings and  *)
(* lists, rlp.decode of a byte string.  A decode error is DecodeFail.      *)
(***************************************************************************)

rlp_length(n, offset) ==
    IF n < 56 THEN << offset + n >>
    ELSE LET bl == int_to_big_endian(n)
         IN  << offset + 55 + Len(bl) >> \o bl

RECURSIVE rlp_encode(_), rlp_concat(_)
rlp_encode(x) ==
    IF x.t = "str"
    THEN IF Len(x.v) = 1 /\ x.v[1] < 128 THEN x.v
         ELSE rlp_length(Len(x.v), 128) \o x.v
    ELSE CHOOSE r \in { rlp_length(Len(body), 192) \o body :
                            body \in {rlp_concat(x.v)} } : TRUE

rlp_concat(xs) ==
    IF xs = <<>> THEN <<>>
    ELSE rlp_encode(Head(xs)) \o rlp_concat(Tail(xs))

DecodeFail == [t |-> "fail", v |-> <<>>]

(* The length of the item at the head of s, prefix included, as its       *)
(* prefix declares it; -1 when the prefix itself is cut short.             *)
rlp_item_len(s) ==
    IF s[1] < 128 THEN 1
    ELSE IF s[1] < 184 THEN 1 + (s[1] - 128)
    ELSE IF s[1] < 192
    THEN IF Len(s) < 1 + (s[1] - 183) THEN -1
         ELSE 1 + (s[1] - 183) + big_endian_to_int(SubSeq(s, 2, 1 + (s[1] - 183)))
    ELSE IF s[1] < 248 THEN 1 + (s[1] - 192)
    ELSE IF Len(s) < 1 + (s[1] - 247) THEN -1
         ELSE 1 + (s[1] - 247) + big_endian_to_int(SubSeq(s, 2, 1 + (s[1] - 247)))

(* The length of the prefix of the item at the head of s. *)
rlp_prefix_len(s) ==
    IF s[1] < 128 THEN 0
    ELSE IF s[1] < 184 THEN 1
    ELSE IF s[1] < 192 THEN 1 + (s[1] - 183)
    ELSE IF s[1] < 248 THEN 1
    ELSE 1 + (s[1] - 247)

(* s starts with a whole item. *)
rlp_has_item(s) ==
    /\ s # <<>>
    /\ rlp_item_len(s) # -1
    /\ rlp_item_len(s) <= Len(s)

rlp_first(s) == SubSeq(s, 1, rlp_item_len(s))

rlp_rest(s) == SubSeq(s, rlp_item_len(s) + 1, Len(s))

rlp_body(s) == SubSeq(s, rlp_prefix_len(s) + 1, rlp_item_len(s))

(* s is a sequence of items that decode; s, exactly one item long,         *)
(* decodes.  (Functions, so that TLC evaluates the argument once.)         *)
RECURSIVE rlp_valid_item(_), rlp_item(_)
rlp_valid_items[s \in Seq(0 .. 255)] ==
    \/ s = <<>>
    \/ /\ rlp_has_item(s)
       /\ rlp_valid_item(rlp_first(s))
       /\ rlp_valid_items[rlp_rest(s)]

rlp_valid_item(s) == s[1] < 192 \/ rlp_valid_items[rlp_body(s)]

(* The values of a sequence of valid items; the value of one valid item. *)
rlp_items[s \in Seq(0 .. 255)] ==
    IF s = <<>> THEN <<>>
    ELSE << rlp_item(rlp_first(s)) >> \o rlp_items[rlp_rest(s)]

rlp_item(s) ==
    IF s[1] < 192 THEN S(rlp_body(s)) ELSE L(rlp_items[rlp_body(s)])

rlp_decode(s) ==
    CHOOSE r \in
        { IF rlp_has_item(b) /\ rlp_item_len(b) = Len(b) /\ rlp_valid_item(b)
          THEN rlp_item(b)
          ELSE DecodeFail :
          b \in {s} } : TRUE

(***************************************************************************)
(* Protocol identity and tables of WireProtocol.                           *)
(***************************************************************************)

SYNCHRONIZATION_TOKEN == 574621841
PROTOCOL_VERSION == 8
NETWORK_ID == 0
CLIENT_ID ==
    << 69, 116, 104, 101, 114, 101, 117, 109, 40, 112, 121, 41, 47, 48, 46,
       48, 46, 49 >>
CAPABILITIES == 1 + 2 + 4
NODE_ID ==
    << 74, 2, 85, 250, 70, 115, 250, 163, 15, 197, 171, 253, 60, 85, 11, 253,
       188, 13, 60, 151, 61, 53, 247, 38, 70, 58, 248, 28, 84, 160, 50, 129,
       207, 255, 34, 197, 245, 150, 91, 56, 172, 99, 1, 82, 152, 119, 87, 163,
       23, 130, 71, 133, 73, 195, 111, 124, 132, 203, 68, 54, 186, 121, 214,
       217 >>

(* Python's dict(pairs): a later pair with the same key replaces an        *)
(* earlier one.                                                            *)
dict(pairs) ==
    [k \in {pairs[i][1] : i \in DOMAIN pairs} |->
        LET last == CHOOSE i \in DOMAIN pairs :
                        /\ pairs[i][1] = k
                        /\ \A j \in DOMAIN pairs : pairs[j][1] = k => j <= i
        IN  pairs[last][2]]

cmd_pairs ==
    << <<0, "Hello">>, <<1, "Disconnect">>, <<2, "Ping">>, <<2, "Pong">>,
       <<16, "GetPeers">>, <<17, "Peers">>, <<18, "Transactions">>,
       <<19, "Blocks">>, <<20, "GetChain">>, <<21, "NotInChain">>,
       <<22, "GetTransactions">> >>

cmd_map == dict(cmd_pairs)

(* dict((v, k) for k, v in cmd_map.items()) *)
cmd_map_by_name ==
    [n \in {cmd_map[k] : k \in DOMAIN cmd_map} |->
        CHOOSE k \in DOMAIN cmd_map : cmd_map[k] = n]

disconnect_reasons_pairs ==
    << <<"Disconnect requested", 0>>, <<"TCP sub-system error", 1>>,
       <<"Bad protocol", 2>>, <<"Useless peer", 3>>, <<"Too many peers", 4>>,
       <<"Already connected", 5>>, <<"Wrong genesis block", 6>>,
       <<"Incompatible network protocols", 7>>, <<"Client quitting", 8>> >>

disconnect_reasons_map == dict(disconnect_reasons_pairs)

disconnect_reasons_map_by_id ==
    [c \in {disconnect_reasons_map[r] : r \in DOMAIN disconnect_reasons_map} |->
        CHOOSE r \in DOMAIN disconnect_reasons_map : disconnect_reasons_map[r] = c]

(* The commands for which WireProtocol defines a method rcv_<name>. *)
rcv_methods == {"Hello", "Ping", "Pong", "Disconnect"}

(***************************************************************************)
(* The methods of WireProtocol.  A call works on a call record c:          *)
(*   hello_sent, hello_received  the peer's attributes,                    *)
(*   out      the packets handed to peer.send_packet during the call,      *)
(*   rm       the number of peermgr.remove_peer(peer) calls,               *)
(*   handler  the rcv_ method rcv_packet dispatched to ("" for none),      *)
(*   data     what rcv_packet's rlp.decode returned (DecodeFail before),   *)
(*   resolved the reason text rcv_Disconnect looked up ("" for none),      *)
(*   err      the exception that ended the call ("" when it returned).     *)
(* port is config.getint('server', 'port') of the instance.                *)
(***************************************************************************)

raise(c, e) == [c EXCEPT !.err = e]

(* send_packet writing the payload length in as few bytes as it takes. *)
send_packet_minimal_length(c, data) ==
    CHOOSE r \in
        { LET packet == ienc4(SYNCHRONIZATION_TOKEN)
                            \o ienc(Len(payload)) \o payload
          IN  [c EXCEPT !.out = Append(@, packet)] :
          payload \in {rlp_encode(L(list_ienc(data)))} } : TRUE

send_packet(c, data) ==
    CHOOSE r \in
        { IF ~ienc4_ok(Len(payload)) THEN raise(c, "struct.error")
          ELSE LET packet == ienc4(SYNCHRONIZATION_TOKEN)
                                 \o ienc4(Len(payload)) \o payload
               IN  [c EXCEPT !.out = Append(@, packet)] :
          payload \in {rlp_encode(L(list_ienc(data)))} } : TRUE

hello_payload(port) ==
    LET payload == << I(0), I(PROTOCOL_VERSION), I(NETWORK_ID), S(CLIENT_ID),
                      I(port), I(CAPABILITIES) >>
    IN  IF NODE_ID # <<>> THEN Append(payload, S(NODE_ID)) ELSE payload

send_Hello(c, port) ==
    CHOOSE r \in
        { IF c1.err # "" THEN c1 ELSE [c1 EXCEPT !.hello_sent = TRUE] :
          c1 \in {send_packet(c, hello_payload(port))} } : TRUE

(* send_Disconnect leaving out a reason code that is 0. *)
send_Disconnect_skips_zero(c, reason) ==
    IF ~(reason = "" \/ reason \in DOMAIN disconnect_reasons_map)
    THEN raise(c, "AssertionError")
    ELSE send_packet(c, IF reason # "" /\ disconnect_reasons_map[reason] # 0
                        THEN << I(1), I(disconnect_reasons_map[reason]) >>
                        ELSE << I(1) >>)

(* send_Disconnect dropping the peer itself. *)
send_Disconnect_removes(c, reason) ==
    IF ~(reason = "" \/ reason \in DOMAIN disconnect_reasons_map)
    THEN raise(c, "AssertionError")
    ELSE send_packet([c EXCEPT !.rm = @ + 1],
                     IF reason # ""
                     THEN << I(1), I(disconnect_reasons_map[reason]) >>
                     ELSE << I(1) >>)

send_Disconnect(c, reason) ==
    IF ~(reason = "" \/ reason \in DOMAIN disconnect_reasons_map)
    THEN raise(c, "AssertionError")
    ELSE send_packet(c, IF reason # ""
                        THEN << I(1), I(disconnect_reasons_map[reason]) >>
                        ELSE << I(1) >>)

(* rcv_Hello replying whether or not a Hello was sent already. *)
rcv_Hello_always_replies(c, data, port) ==
    IF Len(data) < 1 THEN raise(c, "IndexError")
    ELSE IF data[1].t # "str" THEN raise(c, "TypeError")
    ELSE IF idec(data[1].v) # PROTOCOL_VERSION
    THEN send_Disconnect(c, "Incompatible network protocols")
    ELSE IF Len(data) < 2 THEN raise(c, "IndexError")
    ELSE IF data[2].t # "str" THEN raise(c, "TypeError")
    ELSE IF idec(data[2].v) # NETWORK_ID
    THEN send_Disconnect(c, "Wrong genesis block")
    ELSE send_Hello([c EXCEPT !.hello_received = TRUE], port)

(* rcv_Hello never replying. *)
rcv_Hello_never_replies(c, data, port) ==
    IF Len(data) < 1 THEN raise(c, "IndexError")
    ELSE IF data[1].t # "str" THEN raise(c, "TypeError")
    ELSE IF idec(data[1].v) # PROTOCOL_VERSION
    THEN send_Disconnect(c, "Incompatible network protocols")
    ELSE IF Len(data) < 2 THEN raise(c, "IndexError")
    ELSE IF data[2].t # "str" THEN raise(c, "TypeError")
    ELSE IF idec(data[2].v) # NETWORK_ID
    THEN send_Disconnect(c, "Wrong genesis block")
    ELSE [c EXCEPT !.hello_received = TRUE]

(* rcv_Hello checking the network id before the protocol version. *)
rcv_Hello_network_first(c, data, port) ==
    IF Len(data) < 2 THEN raise(c, "IndexError")
    ELSE IF data[2].t # "str" THEN raise(c, "TypeError")
    ELSE IF idec(data[2].v) # NETWORK_ID
    THEN send_Disconnect(c, "Wrong genesis block")
    ELSE IF data[1].t # "str" THEN raise(c, "TypeError")
    ELSE IF idec(data[1].v) # PROTOCOL_VERSION
    THEN send_Disconnect(c, "Incompatible network protocols")
    ELSE LET c1 == [c EXCEPT !.hello_received = TRUE]
         IN  IF ~c1.hello_sent THEN send_Hello(c1, port) ELSE c1

(* rcv_Hello setting hello_received before it checks the network id. *)
rcv_Hello_early_flag(c, data, port) ==
    IF Len(data) < 1 THEN raise(c, "IndexError")
    ELSE IF data[1].t # "str" THEN raise(c, "TypeError")
    ELSE IF idec(data[1].v) # PROTOCOL_VERSION
    THEN send_Disconnect(c, "Incompatible network protocols")
    ELSE IF Len(data) < 2 THEN raise(c, "IndexError")
    ELSE IF data[2].t # "str" THEN raise(c, "TypeError")
    ELSE LET c1 == [c EXCEPT !.hello_received = TRUE]
         IN  IF idec(data[2].v) # NETWORK_ID
             THEN send_Disconnect(c1, "Wrong genesis block")
             ELSE IF ~c1.hello_sent THEN send_Hello(c1, port) ELSE c1

rcv_Hello(c, data, port) ==
    IF Len(data) < 1 THEN raise(c, "IndexError")
    ELSE IF data[1].t # "str" THEN raise(c, "TypeError")
    ELSE IF idec(data[1].v) # PROTOCOL_VERSION
    THEN send_Disconnect(c, "Incompatible network protocols")
    ELSE IF Len(data) < 2 THEN raise(c, "IndexError")
    ELSE IF data[2].t # "str" THEN raise(c, "TypeError")
    ELSE IF idec(data[2].v) # NETWORK_ID
    THEN send_Disconnect(c, "Wrong genesis block")
    ELSE LET c1 == [c EXCEPT !.hello_received = TRUE]
         IN  IF ~c1.hello_sent THEN send_Hello(c1, port) ELSE c1

send_Ping(c) == send_packet(c, << I(2) >>)

send_Pong(c) == send_packet(c, << I(3) >>)

rcv_Ping(c, data) == send_Pong(c)

rcv_Pong(c, data) == c

rcv_Disconnect(c, data) ==
    LET remove == [c EXCEPT !.rm = @ + 1]
    IN  IF Len(data) > 0
        THEN IF data[1].t # "str" THEN raise(c, "TypeError")
             ELSE IF idec(data[1].v) \notin DOMAIN disconnect_reasons_map_by_id
             THEN raise(c, "KeyError")
             ELSE [remove EXCEPT
                      !.resolved = disconnect_reasons_map_by_id[idec(data[1].v)]]
        ELSE remove

(* getattr(self, func_name)(peer, data) *)
dispatch(c, name, data, port) ==
    LET c1 == [c EXCEPT !.handler = name]
    IN  CASE name = "Hello" -> rcv_Hello(c1, data, port)
          [] name = "Ping" -> rcv_Ping(c1, data)
          [] name = "Pong" -> rcv_Pong(c1, data)
          [] name = "Disconnect" -> rcv_Disconnect(c1, data)

(* check_cmd looking up any first field in the command table. *)
check_cmd_no_lookup_guard(c, data, port) ==
    IF Len(data.v) = 0 THEN send_Disconnect(c, "Bad protocol")
    ELSE IF data.t = "str" THEN raise(c, "AttributeError")
    ELSE IF data.v[1].t # "str" THEN raise(c, "TypeError")
    ELSE LET cmd_id == idec(data.v[1].v)
             rest == Tail(data.v)
         IN  IF cmd_id \notin DOMAIN cmd_map THEN raise(c, "KeyError")
             ELSE IF cmd_map[cmd_id] \notin rcv_methods THEN c
             ELSE dispatch(c, cmd_map[cmd_id], rest, port)

(* check_cmd disconnecting on a command without a handler, as the code     *)
(* left in the string after the return would.                              *)
check_cmd_unbound_disconnects(c, data, port) ==
    IF Len(data.v) = 0 THEN send_Disconnect(c, "Bad protocol")
    ELSE IF data.t = "str"
    THEN IF data.v[1] \notin DOMAIN cmd_map
         THEN send_Disconnect(c, "Bad protocol")
         ELSE raise(c, "AttributeError")
    ELSE IF data.v[1].t # "str" THEN raise(c, "TypeError")
    ELSE IF idec(data.v[1].v) \notin DOMAIN cmd_map
    THEN send_Disconnect(c, "Bad protocol")
    ELSE LET cmd_id == idec(data.v[1].v)
             rest == Tail(data.v)
         IN  IF cmd_map[cmd_id] \notin rcv_methods
             THEN send_Disconnect(c, "Incompatible network protocols")
             ELSE dispatch(c, cmd_map[cmd_id], rest, port)

(* The part of rcv_packet after rlp.decode.  data is a byte string when    *)
(* the payload encodes one: then len(data) is its length, data[0] its      *)
(* first character, and data.pop raises.                                   *)
check_cmd(c, data, port) ==
    IF Len(data.v) = 0 THEN send_Disconnect(c, "Bad protocol")
    ELSE IF data.t = "str"
    THEN IF data.v[1] \notin DOMAIN cmd_map
         THEN send_Disconnect(c, "Bad protocol")
         ELSE raise(c, "AttributeError")
    ELSE IF data.v[1].t # "str" THEN raise(c, "TypeError")
    ELSE IF idec(data.v[1].v) \notin DOMAIN cmd_map
    THEN send_Disconnect(c, "Bad protocol")
    ELSE LET cmd_id == idec(data.v[1].v)
             rest == Tail(data.v)
         IN  IF cmd_map[cmd_id] \notin rcv_methods THEN c
             ELSE dispatch(c, cmd_map[cmd_id], rest, port)

(* rcv_packet without its header check. *)
rcv_packet_no_header_check(c, packet, port) ==
    LET payload_len == idec(Slice(packet, 4, 8))
    IN  IF ~(8 + payload_len <= Len(packet))
        THEN raise(c, "AssertionError")
        ELSE CHOOSE r \in
                 { IF data.t = "fail" THEN raise(c, "DecodingError")
                   ELSE check_cmd([c EXCEPT !.data = data], data, port) :
                   data \in {rlp_decode(Slice(packet, 8, 8 + payload_len))} } : TRUE

rcv_packet(c, packet, port) ==
    IF ~startswith(packet, ienc(SYNCHRONIZATION_TOKEN))
    THEN send_Disconnect(c, "Bad protocol")
    ELSE LET payload_len == idec(Slice(packet, 4, 8))
         IN  IF ~(8 + payload_len <= Len(packet))
             THEN raise(c, "AssertionError")
             ELSE CHOOSE r \in
                      { IF data.t = "fail" THEN raise(c, "DecodingError")
                        ELSE check_cmd([c EXCEPT !.data = data], data, port) :
                        data \in {rlp_decode(Slice(packet, 8, 8 + payload_len))} } : TRUE

(***************************************************************************)
(* Two nodes, A and B, each running a WireProtocol and holding one peer    *)
(* object for its connection to the other.  State indexed by a node is     *)
(* the state of that node's peer object.                                   *)
(***************************************************************************)

Peer == {"A", "B"}

Remote(p) == IF p = "A" THEN "B" ELSE "A"

(* config.getint('server', 'port') of each node; 0 encodes as ''. *)
server_port(p) == IF p = "A" THEN 30303 ELSE 0

(* The number of operations of a behaviour. *)
MaxOps == 2

VARIABLES
    hello_sent,      \* peer.hello_sent of each node's peer object
    hello_received,  \* peer.hello_received
    removed,         \* whether peermgr.remove_peer(peer) was called
    chan,            \* packets handed to peer.send_packet, not yet delivered
    stack,           \* calls waiting inside peer.send_packet, innermost last
    nHello,          \* history: Hello packets the node handed to the transport
    ev,              \* history: the last call, what it was given and what it did
    nops             \* history: the number of calls so far

vars == << hello_sent, hello_received, removed, chan, stack, nHello, ev, nops >>

(* The decoded payload of a packet this model's send_packet built. *)
packet_fields(packet) ==
    rlp_decode(Slice(packet, 8, 8 + idec(Slice(packet, 4, 8))))

(* The fields of a packet as numbers, for a packet whose payload is a list *)
(* of byte strings; << -1 >> for any other packet.                         *)
field_ints(packet) ==
    CHOOSE r \in
        { IF d.t = "list" /\ \A i \in DOMAIN d.v : d.v[i].t = "str" /\ Len(d.v[i].v) <= 3
          THEN [i \in DOMAIN d.v |-> idec(d.v[i].v)]
          ELSE << -1 >> :
          d \in {packet_fields(packet)} } : TRUE

is_hello(packet) ==
    \E d \in {packet_fields(packet)} :
        /\ d.t = "list"
        /\ Len(d.v) > 0
        /\ d.v[1].t = "str"
        /\ d.v[1].v = <<>>

RECURSIVE count_hello(_)
count_hello(packets) ==
    IF packets = <<>> THEN 0
    ELSE (IF is_hello(Head(packets)) THEN 1 ELSE 0) + count_hello(Tail(packets))

NoEvent ==
    [op |-> "", peer |-> "", packet |-> <<>>, reason |-> "", arg |-> <<>>,
     delivered |-> FALSE, pre_sent |-> FALSE, pre_received |-> FALSE,
     out |-> <<>>, rm |-> 0, handler |-> "", data |-> DecodeFail,
     resolved |-> "", ret |-> <<>>, err |-> ""]

Init ==
    /\ hello_sent = [p \in Peer |-> FALSE]
    /\ hello_received = [p \in Peer |-> FALSE]
    /\ removed = [p \in Peer |-> FALSE]
    /\ chan = [p \in Peer |-> <<>>]
    /\ stack = <<>>
    /\ nHello = [p \in Peer |-> 0]
    /\ ev = NoEvent
    /\ nops = 0

(* The call record a method of node p's WireProtocol starts from. *)
enter(p) ==
    [hello_sent |-> hello_sent[p], hello_received |-> hello_received[p],
     out |-> <<>>, rm |-> 0, handler |-> "", data |-> DecodeFail,
     resolved |-> "", err |-> ""]

(* What the call op of node p, ended with call record c, is remembered by: *)
(* packet, reason and arg are what it was given, delivered whether the     *)
(* packet came off the transport ch, which is chan less that packet.       *)
event(p, op, packet, reason, arg, c, ch) ==
    [op |-> op, peer |-> p, packet |-> packet, reason |-> reason, arg |-> arg,
     delivered |-> ch # chan,
     pre_sent |-> hello_sent[p], pre_received |-> hello_received[p],
     out |-> c.out, rm |-> c.rm, handler |-> c.handler, data |-> c.data,
     resolved |-> c.resolved, ret |-> <<>>, err |-> c.err]

(* effects with the handshake flags kept on the WireProtocol instance, not  *)
(* on the peer object.                                                     *)
effects_shared_flags(p, c, ch) ==
    /\ hello_sent' = [q \in Peer |-> c.hello_sent]
    /\ hello_received' = [q \in Peer |-> c.hello_received]
    /\ removed' = [removed EXCEPT ![p] = @ \/ c.rm > 0]
    /\ chan' = [ch EXCEPT ![p] = @ \o c.out]
    /\ nHello' = [nHello EXCEPT ![p] = @ + count_hello(c.out)]
    /\ nops' = nops + 1
    /\ stack' = stack

(* The state after node p's call ended with call record c; ch is the       *)
(* transport before the packets of the call are added to it.  Every        *)
(* statement of the call acts on the peer object it was given.             *)
effects(p, c, ch) ==
    /\ hello_sent' = [hello_sent EXCEPT ![p] = c.hello_sent]
    /\ hello_received' = [hello_received EXCEPT ![p] = c.hello_received]
    /\ removed' = [removed EXCEPT ![p] = @ \/ c.rm > 0]
    /\ chan' = [ch EXCEPT ![p] = @ \o c.out]
    /\ nHello' = [nHello EXCEPT ![p] = @ + count_hello(c.out)]
    /\ nops' = nops + 1
    /\ stack' = stack

leave(p, op, packet, reason, c, ch) ==
    /\ effects(p, c, ch)
    /\ ev' = event(p, op, packet, reason, <<>>, c, ch)

(***************************************************************************)
(* Byte strings a remote that is not this implementation may deliver.      *)
(***************************************************************************)

frame(payload) ==
    ienc4(SYNCHRONIZATION_TOKEN) \o ienc4(Len(payload)) \o payload

message(fields) == frame(rlp_encode(L(list_ienc(fields))))

(* A Hello of another client, with the given version and network id. *)
foreign_hello(version, network) ==
    message(<< I(0), I(version), I(network), S(<<99, 112, 112>>), I(7), I(30303) >>)

BadFraming ==
    { <<>>,                                          \* nothing
      << 34, 64, 8 >>,                               \* part of the token
      << 34, 64, 8, 146, 0, 0, 0, 1, 192 >>,         \* wrong token
      << 0, 0, 0, 0 >> \o SubSeq(foreign_hello(8, 0), 5, Len(foreign_hello(8, 0))),
      << 34, 64, 8, 145, 0, 0 >>,                    \* token, half a length
      << 34, 64, 8, 145, 0, 0, 0, 5, 196, 128 >>,    \* 5 declared, 2 given
      << 34, 64, 8, 145, 0, 0, 0, 0 >>,              \* empty payload
      << 34, 64, 8, 145, 0, 0, 0, 2, 131, 1 >> }     \* string of 3, 1 given

BadCommand ==
    { message(<<>>),                                 \* []
      message(<< I(3) >>),
      message(<< I(5) >>),
      message(<< I(5), I(1) >>),
      message(<< L(<<>>) >>),                        \* [[]]
      frame(<< 5 >>),                                \* the byte string '\x05'
      frame(<< 2 >>),                                \* the byte string '\x02'
      frame(<< 128 >>) }                             \* the byte string ''

Unbound == { message(<< I(op) >>) : op \in 16 .. 22 } \cup { message(<< I(16), I(1) >>) }

Hellos ==
    { foreign_hello(v, n) : v \in {1, 8}, n \in {0, 1} }
        \cup { message(<< I(0) >>), message(<< I(0), I(8) >>),
               message(<< I(0), I(1) >>),
               foreign_hello(8, 0) \o << 34, 64 >> }  \* the next packet follows

Disconnects ==
    { message(<< I(1) >>), message(<< I(1), I(4) >>), message(<< I(1), I(0) >>),
      message(<< I(1), I(9) >>) }

Crafted == BadFraming \cup BadCommand \cup Unbound \cup Hellos \cup Disconnects

Reasons == DOMAIN disconnect_reasons_map \cup {"", "No such reason"}

(***************************************************************************)
(* Operations.                                                             *)
(***************************************************************************)

SendHello(p) ==
    /\ nops < MaxOps
    /\ \E c \in {send_Hello(enter(p), server_port(p))} :
           leave(p, "send_Hello", <<>>, "", c, chan)

SendPing(p) ==
    /\ nops < MaxOps
    /\ \E c \in {send_Ping(enter(p))} :
           leave(p, "send_Ping", <<>>, "", c, chan)

SendPong(p) ==
    /\ nops < MaxOps
    /\ \E c \in {send_Pong(enter(p))} :
           leave(p, "send_Pong", <<>>, "", c, chan)

SendDisconnect(p, reason) ==
    /\ nops < MaxOps
    /\ \E c \in {send_Disconnect(enter(p), reason)} :
           leave(p, "send_Disconnect", <<>>, reason, c, chan)

(* The transport hands node p the next packet its remote sent. *)
Deliver(p) ==
    /\ nops < MaxOps
    /\ chan[Remote(p)] # <<>>
    /\ \E packet \in {Head(chan[Remote(p)])} :
       \E c \in {rcv_packet(enter(p), packet, server_port(p))} :
           leave(p, "rcv_packet", packet, "", c,
                 [chan EXCEPT ![Remote(p)] = Tail(@)])

(* Node p is handed bytes of a remote that need not be this                *)
(* implementation, or that the transport cut short.                        *)
Inject(p, packet) ==
    /\ nops < MaxOps
    /\ \E c \in {rcv_packet(enter(p), packet, server_port(p))} :
           leave(p, "rcv_packet", packet, "", c, chan)

Next ==
    \/ \E p \in Peer : SendHello(p)
    \/ \E p \in Peer : SendPing(p)
    \/ \E p \in Peer : SendPong(p)
    \/ \E p \in Peer, reason \in Reasons : SendDisconnect(p, reason)
    \/ \E p \in Peer : Deliver(p)
    \/ \E p \in Peer, packet \in Crafted : Inject(p, packet)

Spec == Init /\ [][Next]_vars

(***************************************************************************)
(* The handshake of two nodes over a reliable in-order transport: a node   *)
(* that has neither sent nor received a Hello may open with send_Hello,    *)
(* either node may send Pings, and the transport delivers every packet,    *)
(* each handled to completion by rcv_packet.                               *)
(***************************************************************************)

InitHello(p) ==
    /\ ~hello_sent[p]
    /\ ~hello_received[p]
    /\ \E c \in {send_Hello(enter(p), server_port(p))} :
           leave(p, "send_Hello", <<>>, "", c, chan)

HandshakePing(p) ==
    /\ nops < MaxOps
    /\ \E c \in {send_Ping(enter(p))} :
           leave(p, "send_Ping", <<>>, "", c, chan)

HandshakeDeliver(p) ==
    /\ chan[Remote(p)] # <<>>
    /\ \E packet \in {Head(chan[Remote(p)])} :
       \E c \in {rcv_packet(enter(p), packet, server_port(p))} :
           leave(p, "rcv_packet", packet, "", c,
                 [chan EXCEPT ![Remote(p)] = Tail(@)])

HandshakeNext ==
    \/ \E p \in Peer : InitHello(p)
    \/ \E p \in Peer : HandshakePing(p)
    \/ \E p \in Peer : HandshakeDeliver(p)

HandshakeSpec ==
    /\ Init
    /\ [][HandshakeNext]_vars
    /\ \A p \in Peer : WF_vars(HandshakeDeliver(p))

(***************************************************************************)
(* The codec on its own: send_packet called with any field list and the    *)
(* packet delivered to the remote node, ienc4 applied to a number, and a   *)
(* pair of the command table looked up both ways.                          *)
(***************************************************************************)

FieldLists ==
    { <<>>,
      << I(0) >>,
      << I(2) >>,
      << I(1), I(4) >>,
      << I(300) >>,
      << S(<<>>) >>,
      << S(<< 5 >>) >>,
      << S(<< 200 >>) >>,
      << L(<<>>) >>,
      << I(17), S(CLIENT_ID), L(<< I(1), L(<<>>) >>) >>,
      << I(16), L(<< I(0), S(<< 1, 2 >>) >>) >>,
      << I(18), S(NODE_ID) >> }                      \* a payload of 56 bytes or more

(* Numbers from 0 to past 2^32, as halves. *)
Wide ==
    { [hi |-> h, lo |-> l] :
        h \in {0, 1, 255, 256, 32767, 32768, 65535, 65536, 65537},
        l \in {0, 1, 255, 256, 32768, 65535} }

SendPacket(p, data) ==
    /\ nops < MaxOps
    /\ \E c \in {send_packet(enter(p), data)} :
           /\ effects(p, c, chan)
           /\ ev' = event(p, "send_packet", <<>>, "", data, c, chan)

(* ienc4(n) *)
Ienc4(n) ==
    /\ nops < MaxOps
    /\ ev' = [NoEvent EXCEPT
                  !.op = "ienc4",
                  !.arg = n,
                  !.ret = IF struct_pack_ok(n) THEN struct_pack(n) ELSE <<>>,
                  !.err = IF struct_pack_ok(n) THEN "" ELSE "struct.error"]
    /\ nops' = nops + 1
    /\ UNCHANGED << hello_sent, hello_received, removed, chan, stack, nHello >>

(* cmd_map[opcode] and cmd_map_by_name[name] *)
Lookup(pair) ==
    /\ nops < MaxOps
    /\ ev' = IF pair[1] \in DOMAIN cmd_map /\ pair[2] \in DOMAIN cmd_map_by_name
             THEN [NoEvent EXCEPT
                      !.op = "lookup",
                      !.arg = pair,
                      !.ret = << cmd_map[pair[1]], cmd_map_by_name[pair[2]] >>]
             ELSE [NoEvent EXCEPT
                      !.op = "lookup", !.arg = pair, !.err = "KeyError"]
    /\ nops' = nops + 1
    /\ UNCHANGED << hello_sent, hello_received, removed, chan, stack, nHello >>

CodecNext ==
    \/ \E p \in Peer, data \in FieldLists : SendPacket(p, data)
    \/ \E p \in Peer : Deliver(p)
    \/ \E n \in Wide : Ienc4(n)
    \/ \E i \in DOMAIN cmd_pairs : Lookup(cmd_pairs[i])

CodecSpec == Init /\ [][CodecNext]_vars

(***************************************************************************)
(* One WireProtocol instance, node A's, holding the peer objects of Peer:  *)
(* each is a connection to a remote of its own, whose bytes arrive in any  *)
(* order with the calls made for the other peer.  State indexed by q is    *)
(* the state of peer object q, chan[q] what was handed to q.send_packet.   *)
(***************************************************************************)

instance_port == server_port("A")

PeerPackets ==
    Hellos \cup Disconnects
        \cup { message(<< I(2) >>), message(<< I(5) >>), message(<< I(16) >>),
               << 34, 64, 8, 146, 0, 0, 0, 1, 192 >>,
               << 34, 64, 8, 145, 0, 0 >> }

PeerSendHello(q) ==
    /\ nops < MaxOps
    /\ \E c \in {send_Hello(enter(q), instance_port)} :
           leave(q, "send_Hello", <<>>, "", c, chan)

PeerSendPing(q) ==
    /\ nops < MaxOps
    /\ \E c \in {send_Ping(enter(q))} :
           leave(q, "send_Ping", <<>>, "", c, chan)

PeerSendPong(q) ==
    /\ nops < MaxOps
    /\ \E c \in {send_Pong(enter(q))} :
           leave(q, "send_Pong", <<>>, "", c, chan)

PeerSendDisconnect(q, reason) ==
    /\ nops < MaxOps
    /\ \E c \in {send_Disconnect(enter(q), reason)} :
           leave(q, "send_Disconnect", <<>>, reason, c, chan)

PeerReceive(q, packet) ==
    /\ nops < MaxOps
    /\ \E c \in {rcv_packet(enter(q), packet, instance_port)} :
           leave(q, "rcv_packet", packet, "", c, chan)

PeersNext ==
    \/ \E q \in Peer : PeerSendHello(q)
    \/ \E q \in Peer : PeerSendPing(q)
    \/ \E q \in Peer : PeerSendPong(q)
    \/ \E q \in Peer, reason \in Reasons : PeerSendDisconnect(q, reason)
    \/ \E q \in Peer, packet \in PeerPackets : PeerReceive(q, packet)

PeersSpec == Init /\ [][PeersNext]_vars

(***************************************************************************)
(* Two nodes over a transport that delivers synchronously: the remote      *)
(* node's rcv_packet runs inside peer.send_packet, and so does whatever it *)
(* sends in reply.  A call that has handed a packet to peer.send_packet    *)
(* waits on the stack until the remote's handling returns; only then does  *)
(* the rest of the method run.  Of all methods only send_Hello has a       *)
(* statement after its send: peer.hello_sent = True.                       *)
(***************************************************************************)

(* The depth of nested calls at which Python gives up with RuntimeError    *)
(* (maximum recursion depth exceeded).                                     *)
MaxDepth == 4

Idle == stack = <<>> /\ \A p \in Peer : chan[p] = <<>>

(* Node p's call op, whose call record ran to c, as far as its             *)
(* peer.send_packet; ch is the transport less the packet the call was      *)
(* given.  An exception unwinds every waiting call.                        *)
sync_call(p, op, packet, reason, c, ch) ==
    /\ hello_received' = [hello_received EXCEPT ![p] = c.hello_received]
    /\ removed' = [removed EXCEPT ![p] = @ \/ c.rm > 0]
    /\ nHello' = [nHello EXCEPT ![p] = @ + count_hello(c.out)]
    /\ ev' = event(p, op, packet, reason, <<>>, c, ch)
    /\ hello_sent' = hello_sent
    /\ IF c.out # <<>>
       THEN /\ chan' = [ch EXCEPT ![p] = c.out]
            /\ stack' = Append(stack, [node |-> p,
                                       sets_sent |-> c.hello_sent /\ ~hello_sent[p]])
       ELSE /\ chan' = ch
            /\ stack' = IF c.err # "" THEN <<>> ELSE stack

SyncSendHello(p) ==
    /\ nops < MaxOps
    /\ Idle
    /\ nops' = nops + 1
    /\ \E c \in {send_Hello(enter(p), server_port(p))} :
           sync_call(p, "send_Hello", <<>>, "", c, chan)

SyncSendPing(p) ==
    /\ nops < MaxOps
    /\ Idle
    /\ nops' = nops + 1
    /\ \E c \in {send_Ping(enter(p))} :
           sync_call(p, "send_Ping", <<>>, "", c, chan)

SyncSendDisconnect(p, reason) ==
    /\ nops < MaxOps
    /\ Idle
    /\ nops' = nops + 1
    /\ \E c \in {send_Disconnect(enter(p), reason)} :
           sync_call(p, "send_Disconnect", <<>>, reason, c, chan)

(* Inside the remote's peer.send_packet: node q's rcv_packet. *)
SyncReceive(q) ==
    /\ chan[Remote(q)] # <<>>
    /\ Len(stack) < MaxDepth
    /\ nops' = nops
    /\ \E packet \in {Head(chan[Remote(q)])} :
       \E c \in {rcv_packet(enter(q), packet, server_port(q))} :
           sync_call(q, "rcv_packet", packet, "", c,
                     [chan EXCEPT ![Remote(q)] = Tail(@)])

(* The nesting is too deep for another call: RuntimeError, which no method *)
(* catches, ends every waiting call before its remaining statements.       *)
SyncOverflow(q) ==
    /\ chan[Remote(q)] # <<>>
    /\ Len(stack) >= MaxDepth
    /\ chan' = [p \in Peer |-> <<>>]
    /\ stack' = <<>>
    /\ ev' = [NoEvent EXCEPT
                  !.op = "rcv_packet",
                  !.peer = q,
                  !.packet = Head(chan[Remote(q)]),
                  !.delivered = TRUE,
                  !.pre_sent = hello_sent[q],
                  !.pre_received = hello_received[q],
                  !.err = "RuntimeError"]
    /\ UNCHANGED << hello_sent, hello_received, removed, nHello, nops >>

(* The innermost waiting call's peer.send_packet returns, and the method   *)
(* runs to its end.                                                        *)
SyncReturn ==
    /\ stack # <<>>
    /\ \A p \in Peer : chan[p] = <<>>
    /\ stack' = SubSeq(stack, 1, Len(stack) - 1)
    /\ hello_sent' = [hello_sent EXCEPT
                          ![stack[Len(stack)].node] =
                              @ \/ stack[Len(stack)].sets_sent]
    /\ UNCHANGED << hello_received, removed, chan, nHello, ev, nops >>

SyncNext ==
    \/ \E p \in Peer : SyncSendHello(p)
    \/ \E p \in Peer : SyncSendPing(p)
    \/ \E p \in Peer, reason \in Reasons : SyncSendDisconnect(p, reason)
    \/ \E q \in Peer : SyncReceive(q)
    \/ \E q \in Peer : SyncOverflow(q)
    \/ SyncReturn

SyncSpec == Init /\ [][SyncNext]_vars

(***************************************************************************)
(* What the claims speak of: the last call and the packet it was given.    *)
(***************************************************************************)

(* The packet has the sync token, its declared payload is all there and    *)
(* decodes to a field list.                                                *)
well_framed(packet) ==
    /\ Len(packet) >= 8
    /\ SubSeq(packet, 1, 4) = << 34, 64, 8, 145 >>
    /\ Len(packet) >= 8 + idec(SubSeq(packet, 5, 8))
    /\ packet_fields(packet).t = "list"

(* The packet is shorter than a header, or has the token and then either  *)
(* less payload than it declares or a payload that does not decode.        *)
framing_error(packet) ==
    \/ Len(packet) < 8
    \/ /\ SubSeq(packet, 1, 4) = << 34, 64, 8, 145 >>
       /\ \/ Len(packet) < 8 + idec(SubSeq(packet, 5, 8))
          \/ packet_fields(packet).t = "fail"

(* Field i (0 is the opcode) of a well-framed packet as a number; -1 when  *)
(* the packet has no such field or the field is a list.                    *)
field(packet, i) ==
    IF ~well_framed(packet) THEN -1
    ELSE CHOOSE r \in
             { IF Len(d.v) > i /\ d.v[i + 1].t = "str" THEN idec(d.v[i + 1].v)
               ELSE -1 :
               d \in {packet_fields(packet)} } : TRUE

received == ev.op = "rcv_packet"

(* The last call changed neither handshake flag of its peer. *)
flags_kept ==
    /\ hello_sent[ev.peer] = ev.pre_sent
    /\ hello_received[ev.peer] = ev.pre_received

(* The last call handed the transport exactly one packet, a Disconnect     *)
(* with this reason code.                                                  *)
one_disconnect(code) ==
    /\ Len(ev.out) = 1
    /\ field_ints(ev.out[1]) = << 1, code >>

(* The last call was rcv_Hello on a Hello with matching version and        *)
(* network id.                                                             *)
matching_hello ==
    /\ received
    /\ ev.handler = "Hello"
    /\ field(ev.packet, 1) = 8
    /\ field(ev.packet, 2) = 0

(* The bytes after the token are those of a Hello with matching version    *)
(* and network id.                                                         *)
matching_hello_body(packet) ==
    LET fixed == << 34, 64, 8, 145 >> \o SubSeq(packet, 5, Len(packet))
    IN  field(fixed, 0) = 0 /\ field(fixed, 1) = 8 /\ field(fixed, 2) = 0

(* C1: rcv_Hello on a Hello whose version and network id match sets        *)
(* hello_received, and replies with one Hello (setting hello_sent) exactly *)
(* when hello_sent was false before; otherwise it sends nothing.           *)
C1_HelloReply ==
    matching_hello =>
        /\ ev.err = ""
        /\ hello_received[ev.peer]
        /\ hello_sent[ev.peer]
        /\ IF ev.pre_sent THEN ev.out = <<>>
           ELSE Len(ev.out) = 1 /\ is_hello(ev.out[1])

C1_Witness ==
    /\ matching_hello
    /\ ev.pre_sent
    /\ ~ev.pre_received
    /\ ev.out = <<>>
    /\ hello_received[ev.peer]

(* Some node has sent a Hello. *)
Started == \E p \in Peer : nHello[p] > 0

(* Both nodes have sent and received a Hello, each has sent exactly one,   *)
(* and no Hello is in flight.                                              *)
Established ==
    \A p \in Peer :
        /\ hello_sent[p]
        /\ hello_received[p]
        /\ nHello[p] = 1
        /\ count_hello(chan[p]) = 0

(* C2: once a node has opened with send_Hello, the two nodes reach, and    *)
(* stay in, the state where both have sent and received a Hello, each has  *)
(* sent exactly one and none is in flight.                                 *)
C2_Handshake == [](Started => <>[]Established)

(* The node that opened has handled the other's reply without answering.   *)
C2_Witness ==
    /\ Established
    /\ matching_hello
    /\ ev.pre_sent
    /\ ev.out = <<>>
    /\ \A p \in Peer : chan[p] = <<>>

(* C3: over any sequence of send_Hello and rcv_packet calls a node hands   *)
(* the transport at most one Hello for its peer.                           *)
C3_HelloOnce == \A p \in Peer : nHello[p] <= 1

(* C4: a Hello with another protocol version is answered by exactly one    *)
(* Disconnect [0x01, 0x07] and no Hello, and changes neither flag,         *)
(* whatever its network id.                                                *)
C4_VersionMismatch ==
    (/\ received
     /\ field(ev.packet, 0) = 0
     /\ field(ev.packet, 1) \notin {-1, 8})
        => /\ ev.err = ""
           /\ one_disconnect(7)
           /\ flags_kept
           /\ ev.rm = 0

C4_Witness ==
    /\ received
    /\ field(ev.packet, 0) = 0
    /\ field(ev.packet, 1) = 1
    /\ field(ev.packet, 2) = 1
    /\ one_disconnect(7)
    /\ ~hello_received[ev.peer]

(* C5: a Hello with the local version and another network id is answered   *)
(* by exactly one Disconnect [0x01, 0x06] and no Hello, and hello_received *)
(* is not set.                                                             *)
C5_NetworkMismatch ==
    (/\ received
     /\ field(ev.packet, 0) = 0
     /\ field(ev.packet, 1) = 8
     /\ field(ev.packet, 2) \notin {-1, 0})
        => /\ ev.err = ""
           /\ one_disconnect(6)
           /\ flags_kept
           /\ ev.rm = 0

C5_Witness ==
    /\ received
    /\ field(ev.packet, 0) = 0
    /\ field(ev.packet, 1) = 8
    /\ field(ev.packet, 2) = 1
    /\ one_disconnect(6)
    /\ ~hello_received[ev.peer]

(* C6: rcv_packet returns normally on every byte string: one that is too   *)
(* short, truncated, or whose payload does not decode, is answered by a    *)
(* Disconnect 'Bad protocol' and reaches no handler.                       *)
C6_NoErrorSurfaces ==
    (received /\ framing_error(ev.packet))
        => /\ ev.err = ""
           /\ one_disconnect(2)
           /\ ev.handler = ""

(* C7: a packet whose first 4 bytes are not the sync token gets exactly    *)
(* one Disconnect 'Bad protocol'; no handler runs, the flags stay and the  *)
(* peer is not removed.                                                    *)
C7_BadToken ==
    (received /\ ~startswith(ev.packet, << 34, 64, 8, 145 >>))
        => /\ ev.err = ""
           /\ one_disconnect(2)
           /\ ev.handler = ""
           /\ flags_kept
           /\ ev.rm = 0

(* The last call was given a packet that, but for its token, is a Hello    *)
(* this node accepts.                                                      *)
C7_Witness ==
    /\ received
    /\ Len(ev.packet) > 8
    /\ SubSeq(ev.packet, 1, 4) = << 0, 0, 0, 0 >>
    /\ matching_hello_body(ev.packet)
    /\ one_disconnect(2)
    /\ ~hello_received[ev.peer]

(* C8: a well-framed packet with no fields, or whose first field is no     *)
(* opcode of the command table, gets exactly one Disconnect 'Bad protocol' *)
(* and reaches no handler.                                                 *)
C8_UnknownCommand ==
    (/\ received
     /\ well_framed(ev.packet)
     /\ \/ packet_fields(ev.packet).v = <<>>
        \/ field(ev.packet, 0) \notin {-1, 0, 1, 2} \cup (16 .. 22))
        => /\ ev.err = ""
           /\ one_disconnect(2)
           /\ ev.handler = ""

C8_Witness ==
    /\ received
    /\ field(ev.packet, 0) = 5
    /\ one_disconnect(2)
    /\ ev.handler = ""

(* C9: a well-framed packet whose opcode is in the command table and has   *)
(* no handler (0x10 .. 0x16) sends nothing, raises nothing, removes no     *)
(* peer and changes neither flag.                                          *)
C9_Unbound ==
    (received /\ field(ev.packet, 0) \in 16 .. 22)
        => /\ ev.err = ""
           /\ ev.out = <<>>
           /\ ev.rm = 0
           /\ flags_kept

C9_Witness ==
    /\ received
    /\ field(ev.packet, 0) = 22
    /\ ev.err = ""
    /\ ev.out = <<>>
    /\ hello_sent[ev.peer]

(* C10: a node given the packet send_Ping emits, [0x02], sends exactly one *)
(* packet back, [0x03].                                                    *)
C10_PingPong ==
    (received /\ ev.packet = << 34, 64, 8, 145, 0, 0, 0, 2, 193, 2 >>)
        => /\ Len(ev.out) = 1
           /\ field_ints(ev.out[1]) = << 3 >>

(* C11: a node given the packet send_Pong emits, [0x03], sends nothing,    *)
(* raises nothing, does not remove the peer and changes neither flag.      *)
C11_PongNoOp ==
    (/\ received
     /\ ev.delivered
     /\ ev.packet = << 34, 64, 8, 145, 0, 0, 0, 2, 193, 3 >>)
        => /\ ev.err = ""
           /\ ev.out = <<>>
           /\ ev.rm = 0
           /\ flags_kept

(* C12: for every (opcode, name) pair the command table is written with,   *)
(* cmd_map[opcode] is name and cmd_map_by_name[name] is opcode.            *)
C12_CommandLookup ==
    ev.op = "lookup"
        => /\ ev.err = ""
           /\ ev.ret = << ev.arg[2], ev.arg[1] >>

(* C13: send_Disconnect with a reason of the table hands the transport one *)
(* packet [0x01, code]; rcv_packet of the remote node, given that packet,  *)
(* looks up the same reason text and calls remove_peer once, raising       *)
(* nothing.                                                                *)
C13_DisconnectRoundTrip ==
    /\ (ev.op = "send_Disconnect" /\ ev.reason \in DOMAIN disconnect_reasons_map)
           => /\ ev.err = ""
              /\ one_disconnect(disconnect_reasons_map[ev.reason])
    /\ \A r \in DOMAIN disconnect_reasons_map :
           (/\ received
            /\ ev.delivered
            /\ field_ints(ev.packet) = << 1, disconnect_reasons_map[r] >>)
               => /\ ev.err = ""
                  /\ ev.handler = "Disconnect"
                  /\ ev.resolved = r
                  /\ ev.rm = 1

(* The remote node was sent 'Disconnect requested', code 0, and dropped    *)
(* the peer.                                                               *)
C13_Witness ==
    /\ received
    /\ ev.delivered
    /\ field_ints(ev.packet) = << 1, 0 >>
    /\ ev.resolved = "Disconnect requested"
    /\ ev.rm = 1
    /\ removed[ev.peer]

(* C14: rcv_Disconnect, whatever follows the opcode of the Disconnect it   *)
(* is given, raises nothing and calls remove_peer exactly once.            *)
C14_DisconnectRemoves ==
    (received /\ field(ev.packet, 0) = 1)
        => /\ ev.err = ""
           /\ ev.rm = 1

(* The packet send_packet builds for the field list data. *)
built(data) == send_packet(enter("A"), data).out

(* C15: the packet send_packet builds for a field list is the 4-byte sync  *)
(* token, the payload length in 4 bytes big-endian, and the payload;       *)
(* rcv_packet, given it, passes the header check and the length check and  *)
(* decodes what decode(encode(list_ienc(data))) is.                        *)
C15_FramingRoundTrip ==
    /\ ev.op = "send_packet"
           => /\ ev.err = ""
              /\ Len(ev.out) = 1
              /\ Len(ev.out[1]) >= 8
              /\ SubSeq(ev.out[1], 1, 4) = << 34, 64, 8, 145 >>
              /\ big_endian_to_int(SubSeq(ev.out[1], 5, 8)) = Len(ev.out[1]) - 8
              /\ SubSeq(ev.out[1], 9, Len(ev.out[1]))
                     = rlp_encode(L(list_ienc(ev.arg)))
    /\ \A data \in FieldLists :
           (received /\ ev.delivered /\ << ev.packet >> = built(data))
               => /\ ev.err \notin {"AssertionError", "DecodingError"}
                  /\ ev.data.t = "list"
                  /\ ev.data = rlp_decode(rlp_encode(L(list_ienc(data))))

(* The remote node decoded a field list with an integer, a string and a    *)
(* nested list.                                                            *)
C15_Witness ==
    /\ received
    /\ ev.delivered
    /\ ev.data.t = "list"
    /\ Len(ev.data.v) = 3
    /\ ev.data.v[1] = S(<< 17 >>)
    /\ ev.data.v[2] = S(CLIENT_ID)
    /\ ev.data.v[3].t = "list"
    /\ Len(ev.data.v[3].v) = 2

(* C16: ienc4(n) is, for 0 <= n < 2^32, the 4 bytes whose big-endian       *)
(* unsigned value is n, and for n >= 2^32 an out-of-range error.           *)
C16_Fixed4 ==
    ev.op = "ienc4"
        => IF ev.arg.hi < 65536
           THEN /\ ev.err = ""
                /\ Len(ev.ret) = 4
                /\ idec(SubSeq(ev.ret, 1, 2)) = ev.arg.hi
                /\ idec(SubSeq(ev.ret, 3, 4)) = ev.arg.lo
           ELSE ev.err = "struct.error"

(* C17: rcv_packet hands a message other than Hello to its handler only    *)
(* when the peer's hello_received is already true.                         *)
C17_HelloFirst ==
    (received /\ ev.handler \in {"Ping", "Pong", "Disconnect"})
        => ev.pre_received

(* C18: a call made for one peer leaves hello_sent and hello_received of   *)
(* every other peer as they were, hands no packet to another peer's        *)
(* transport and removes no other peer.                                    *)
C18_PeerIsolation ==
    [][\A q \in Peer :
           q # ev'.peer
               => /\ hello_sent'[q] = hello_sent[q]
                  /\ hello_received'[q] = hello_received[q]
                  /\ chan'[q] = chan[q]
                  /\ removed'[q] = removed[q]]_vars

(* Peer A was removed on a Disconnect after a Hello was sent to peer B.    *)
C18_Witness ==
    /\ received
    /\ ev.peer = "A"
    /\ ev.rm = 1
    /\ removed["A"]
    /\ ~removed["B"]
    /\ hello_sent["B"]
    /\ ~hello_sent["A"]
    /\ chan["B"] # <<>>
    /\ chan["A"] = <<>>

(* C19: over a transport that delivers synchronously, rcv_Hello handling   *)
(* the reply to the node's own Hello finds hello_sent true and sends       *)
(* nothing, and the exchange ends with one Hello sent by each node.        *)
C19_SyncHello ==
    /\ (matching_hello /\ nHello[ev.peer] - count_hello(ev.out) > 0)
           => ev.pre_sent /\ ev.out = <<>>
    /\ \A p \in Peer : nHello[p] <= 1
    /\ ev.err # "RuntimeError"

(* The last call handed the transport Disconnects and nothing else. *)
sent_disconnect ==
    /\ ev.out # <<>>
    /\ \A i \in DOMAIN ev.out : field(ev.out[i], 0) = 1

(* C20: remove_peer is called only by rcv_Disconnect handling a received   *)
(* Disconnect, and once; a call that sends a Disconnect, send_Disconnect   *)
(* itself or rcv_packet on a protocol violation, sends that one packet,    *)
(* removes no peer and changes neither flag.                               *)
C20_RemovalOnlyOnDisconnect ==
    /\ ev.rm > 0
           => /\ received
              /\ ev.handler = "Disconnect"
              /\ field(ev.packet, 0) = 1
              /\ ev.rm = 1
    /\ sent_disconnect
           => /\ Len(ev.out) = 1
              /\ ev.rm = 0
              /\ flags_kept

(* After the node sent a Disconnect 'Bad protocol' it was given a matching *)
(* Hello by the same peer, and handled it as ever: it replied.             *)
C20_Witness ==
    /\ matching_hello
    /\ hello_received[ev.peer]
    /\ ~removed[ev.peer]
    /\ Len(chan[ev.peer]) = 2
    /\ field_ints(chan[ev.peer][1]) = << 1, 2 >>
    /\ is_hello(chan[ev.peer][2])

=============================================================================
